---- MODULE Spec2Model ----
(***************************************************************************)
(* Model of the template-editor AI agent hook (useTemplateAgent) and its   *)
(* file tools (executeEditFile, executeDeleteFile).                        *)
(*                                                                         *)
(* Strings are sequences of one-character strings.  A JavaScript value is  *)
(* a record [t, v]: t is the typeof tag, v the characters of a string.     *)
(*                                                                         *)
(* The hook keeps two kinds of state.  Refs (messagesRef, abortRef,        *)
(* messageCounter) are read and written immediately.  React state (status, *)
(* pendingApprovals) is written by setStatus/setPendingApprovals at once,  *)
(* but the callbacks send/approve/reject read the values captured by the   *)
(* last render (rStatus, rPending); Render publishes the written values.   *)
(***************************************************************************)
EXTENDS Integers, Sequences, FiniteSets, TLC

\* ---------------------------------------------------------------- bounds
\* A behaviour runs under one of two profiles, chosen in Init.  "race" has
\* more turns and a backend that streams text only; "tools" has fewer turns
\* and a backend that calls tools in parallel and over several steps.
MaxTurnsRace == 3   \* runStream invocations of a "race" behaviour
MaxTurnsTools == 2  \* runStream invocations of a "tools" behaviour
MaxPartsRace == 1   \* stream parts one turn yields, "race"
MaxPartsTools == 2  \* stream parts one turn yields, "tools"
MaxCallsTools == 2  \* tool calls announced in one behaviour
MaxStepsRace == 1   \* steps of one turn, "race"
MaxStepsTools == 2  \* steps of one turn, "tools"
MaxPerRender == 2   \* approve/reject calls that act between two renders
MaxContentLen == 3  \* characters of a file the tools are applied to
MaxArgLen == 2      \* characters of oldContent and of newContent
MaxModels == 2      \* entries of the data array of one model-list body
MaxSummarySteps == 2 \* steps of a step summary the reconciler is applied to
MaxStepCalls == 2   \* tool calls, and tool results, of one such step
MaxResultId == 3    \* call ids the results of such a step may carry

MAX_STEPS == 20

\* ------------------------------------------------------------ JS values
Str(s) == [t |-> "string", v |-> s]
Num == [t |-> "number", v |-> <<>>]
Undefined == [t |-> "undefined", v |-> <<>>]

IsString(x) == x.t = "string"

\* Tool-call arguments: obj is FALSE when the input is not an object.
Args(obj, path, oldContent, newContent) ==
    [obj |-> obj, path |-> path, oldContent |-> oldContent, newContent |-> newContent]

isRecord(args) == args.obj

\* -------------------------------------------------------------- strings
RECURSIVE IndexOfFrom(_, _, _)
\* first position >= from at which pat occurs in s, 0 when there is none
IndexOfFrom(s, pat, from) ==
    IF from + Len(pat) - 1 > Len(s) THEN 0
    ELSE IF SubSeq(s, from, from + Len(pat) - 1) = pat THEN from
    ELSE IndexOfFrom(s, pat, from + 1)

indexOf(s, pat) == IndexOfFrom(s, pat, 1)

RECURSIVE SplitFrom(_, _, _)
\* String.prototype.split with a non-empty separator: the pieces between
\* the matches found scanning left to right, each match consumed whole
SplitFrom(s, sep, from) ==
    LET i == IndexOfFrom(s, sep, from)
    IN  IF i = 0 THEN <<SubSeq(s, from, Len(s))>>
        ELSE <<SubSeq(s, from, i - 1)>> \o SplitFrom(s, sep, i + Len(sep))

split(s, sep) ==
    IF sep = <<>> THEN [i \in 1..Len(s) |-> <<s[i]>>]
    ELSE SplitFrom(s, sep, 1)

RECURSIVE GetSubstitution(_, _, _, _)
\* the replacement text of String.prototype.replace for a string pattern:
\* $$ is a dollar sign, $& the match, $` the text before it, $' the text
\* after it; every other character stands for itself
GetSubstitution(repl, matched, before, after) ==
    IF repl = <<>> THEN <<>>
    ELSE IF repl[1] = "$" /\ Len(repl) >= 2 /\ repl[2] \in {"$", "&", "`", "'"}
         THEN (CASE repl[2] = "$" -> <<"$">>
                 [] repl[2] = "&" -> matched
                 [] repl[2] = "`" -> before
                 [] repl[2] = "'" -> after)
              \o GetSubstitution(SubSeq(repl, 3, Len(repl)), matched, before, after)
         ELSE <<repl[1]>>
              \o GetSubstitution(SubSeq(repl, 2, Len(repl)), matched, before, after)

\* String.prototype.replace(pattern: string, replacement: string)
replace(s, pat, repl) ==
    LET i == indexOf(s, pat)
    IN  IF i = 0 THEN s
        ELSE LET before == SubSeq(s, 1, i - 1)
                 after == SubSeq(s, i + Len(pat), Len(s))
             IN  before \o GetSubstitution(repl, pat, before, after) \o after

IsSpace(c) == c = " "

RECURSIVE TrimStart(_)
TrimStart(s) == IF s # <<>> /\ IsSpace(s[1]) THEN TrimStart(Tail(s)) ELSE s

RECURSIVE TrimEnd(_)
TrimEnd(s) ==
    IF s # <<>> /\ IsSpace(s[Len(s)]) THEN TrimEnd(SubSeq(s, 1, Len(s) - 1)) ELSE s

\* a trim that removes leading white space only
trimStartOnly(s) == TrimStart(s)

\* String.prototype.trim
trim(s) == TrimEnd(TrimStart(s))

\* ------------------------------------------------------------ file tree
\* The tree maps each path to an entry: a file with its text, a directory,
\* or nothing.
File(text) == [kind |-> "file", text |-> text]
Dir == [kind |-> "dir", text |-> <<>>]
Absent == [kind |-> "absent", text |-> <<>>]

Paths == {<<"m">>, <<"d">>}

existsFile(path, tree) == path \in DOMAIN tree /\ tree[path].kind # "absent"

\* getFileText throws for a directory: ok is FALSE then
getFileText(path, tree) ==
    IF tree[path].kind = "file" THEN [ok |-> TRUE, text |-> tree[path].text]
    ELSE [ok |-> FALSE, text |-> <<>>]

createFile(path, tree, content) ==
    IF path \in DOMAIN tree THEN [tree EXCEPT ![path] = File(content)] ELSE tree

updateFile(path, content, tree) ==
    IF path \in DOMAIN tree THEN [tree EXCEPT ![path] = File(content)] ELSE tree

removeFile(path, tree) ==
    IF path \in DOMAIN tree THEN [tree EXCEPT ![path] = Absent] ELSE tree

\* ---------------------------------------------------------- tool results
\* success is "true", "false" or "none" (the field is missing); err names
\* the error message, "" when there is none.
Result(success, action, err, path, content) ==
    [success |-> success, action |-> action, error |-> err, path |-> path,
     content |-> content]

NoResult == Result("none", "", "", <<>>, <<>>)

RejectionResult == Result("none", "", "User rejected this action.", <<>>, <<>>)

\* executeEditFile without the try/catch around getFileText: for a directory
\* the exception escapes and no result is returned
executeEditFileThrowsOnDir(tree, path, oldContent, newContent) ==
    LET exists == existsFile(path, tree)
        got == getFileText(path, tree)
        current == got.text
        occurrences == Len(split(current, oldContent)) - 1
    IN  IF ~exists /\ oldContent = <<>>
        THEN [result |-> Result("true", "created", "", path, <<>>),
              tree |-> createFile(path, tree, newContent)]
        ELSE IF ~exists
        THEN [result |-> Result("false", "", "File not found", path, <<>>),
              tree |-> tree]
        ELSE IF ~got.ok
        THEN [result |-> NoResult, tree |-> tree]
        ELSE IF oldContent = <<>>
        THEN [result |-> Result("true",
                                IF Len(current) > 0 THEN "appended" ELSE "written",
                                "", path, <<>>),
              tree |-> updateFile(path,
                                  IF Len(current) > 0 THEN current \o newContent
                                  ELSE newContent,
                                  tree)]
        ELSE IF occurrences = 0
        THEN [result |-> Result("false", "", "oldContent not found", path, <<>>),
              tree |-> tree]
        ELSE IF occurrences > 1
        THEN [result |-> Result("false", "", "oldContent matches many", path, <<>>),
              tree |-> tree]
        ELSE [result |-> Result("true", "edited", "", path, <<>>),
              tree |-> updateFile(path, replace(current, oldContent, newContent), tree)]

\* executeEditFile creating the new file with oldContent (the empty string)
executeEditFileCreatesEmpty(tree, path, oldContent, newContent) ==
    LET exists == existsFile(path, tree)
        got == getFileText(path, tree)
        current == got.text
        occurrences == Len(split(current, oldContent)) - 1
    IN  IF ~exists /\ oldContent = <<>>
        THEN [result |-> Result("true", "created", "", path, <<>>),
              tree |-> createFile(path, tree, oldContent)]
        ELSE IF ~exists
        THEN [result |-> Result("false", "", "File not found", path, <<>>),
              tree |-> tree]
        ELSE IF ~got.ok
        THEN [result |-> Result("false", "", "is a directory", path, <<>>),
              tree |-> tree]
        ELSE IF oldContent = <<>>
        THEN [result |-> Result("true",
                                IF Len(current) > 0 THEN "appended" ELSE "written",
                                "", path, <<>>),
              tree |-> updateFile(path,
                                  IF Len(current) > 0 THEN current \o newContent
                                  ELSE newContent,
                                  tree)]
        ELSE IF occurrences = 0
        THEN [result |-> Result("false", "", "oldContent not found", path, <<>>),
              tree |-> tree]
        ELSE IF occurrences > 1
        THEN [result |-> Result("false", "", "oldContent matches many", path, <<>>),
              tree |-> tree]
        ELSE [result |-> Result("true", "edited", "", path, <<>>),
              tree |-> updateFile(path, replace(current, oldContent, newContent), tree)]

\* executeEditFile writing newContent over the current content instead of
\* appending it
executeEditFileOverwrites(tree, path, oldContent, newContent) ==
    LET exists == existsFile(path, tree)
        got == getFileText(path, tree)
        current == got.text
        occurrences == Len(split(current, oldContent)) - 1
    IN  IF ~exists /\ oldContent = <<>>
        THEN [result |-> Result("true", "created", "", path, <<>>),
              tree |-> createFile(path, tree, newContent)]
        ELSE IF ~exists
        THEN [result |-> Result("false", "", "File not found", path, <<>>),
              tree |-> tree]
        ELSE IF ~got.ok
        THEN [result |-> Result("false", "", "is a directory", path, <<>>),
              tree |-> tree]
        ELSE IF oldContent = <<>>
        THEN [result |-> Result("true",
                                IF Len(current) > 0 THEN "appended" ELSE "written",
                                "", path, <<>>),
              tree |-> updateFile(path,
                                  newContent,
                                  tree)]
        ELSE IF occurrences = 0
        THEN [result |-> Result("false", "", "oldContent not found", path, <<>>),
              tree |-> tree]
        ELSE IF occurrences > 1
        THEN [result |-> Result("false", "", "oldContent matches many", path, <<>>),
              tree |-> tree]
        ELSE [result |-> Result("true", "edited", "", path, <<>>),
              tree |-> updateFile(path, replace(current, oldContent, newContent), tree)]

\* executeEditFile: the result and the tree it leaves
executeEditFile(tree, path, oldContent, newContent) ==
    LET exists == existsFile(path, tree)
        got == getFileText(path, tree)
        current == got.text
        occurrences == Len(split(current, oldContent)) - 1
    IN  IF ~exists /\ oldContent = <<>>
        THEN [result |-> Result("true", "created", "", path, <<>>),
              tree |-> createFile(path, tree, newContent)]
        ELSE IF ~exists
        THEN [result |-> Result("false", "", "File not found", path, <<>>),
              tree |-> tree]
        ELSE IF ~got.ok
        THEN [result |-> Result("false", "", "is a directory", path, <<>>),
              tree |-> tree]
        ELSE IF oldContent = <<>>
        THEN [result |-> Result("true",
                                IF Len(current) > 0 THEN "appended" ELSE "written",
                                "", path, <<>>),
              tree |-> updateFile(path,
                                  IF Len(current) > 0 THEN current \o newContent
                                  ELSE newContent,
                                  tree)]
        ELSE IF occurrences = 0
        THEN [result |-> Result("false", "", "oldContent not found", path, <<>>),
              tree |-> tree]
        ELSE IF occurrences > 1
        THEN [result |-> Result("false", "", "oldContent matches many", path, <<>>),
              tree |-> tree]
        ELSE [result |-> Result("true", "edited", "", path, <<>>),
              tree |-> updateFile(path, replace(current, oldContent, newContent), tree)]

\* executeDeleteFile reporting success without removing the path
executeDeleteFileKeeps(tree, path) ==
    IF ~existsFile(path, tree)
    THEN [result |-> Result("false", "", "File not found", path, <<>>), tree |-> tree]
    ELSE [result |-> Result("true", "", "", path, <<>>), tree |-> tree]

\* executeDeleteFile: the result and the tree it leaves
executeDeleteFile(tree, path) ==
    IF ~existsFile(path, tree)
    THEN [result |-> Result("false", "", "File not found", path, <<>>), tree |-> tree]
    ELSE [result |-> Result("true", "", "", path, <<>>), tree |-> removeFile(path, tree)]

\* readFile.execute
readFileExecute(tree, path) ==
    IF ~existsFile(path, tree)
    THEN Result("none", "", "File not found", <<>>, <<>>)
    ELSE IF getFileText(path, tree).ok
    THEN Result("none", "", "", <<>>, getFileText(path, tree).text)
    ELSE Result("none", "", "is a directory", <<>>, <<>>)


\* ------------------------------------------------------- message shapes
\* StreamToolCall / PendingToolCall
Call(id, name, args) == [toolCallId |-> id, toolName |-> name, args |-> args]

\* DisplayToolCall
DisplayToolCall(id, name, args, result, state) ==
    [toolCallId |-> id, toolName |-> name, args |-> args, result |-> result,
     state |-> state]

\* DisplayMessage
DisplayMessage(id, role, content, toolCalls) ==
    [id |-> id, role |-> role, content |-> content, toolCalls |-> toolCalls]

\* one tool-result part of a tool message, or of a step's toolResults
ToolResultPart(id, name, output) ==
    [toolCallId |-> id, toolName |-> name, output |-> output]

\* ModelMessage: a user message has text, an assistant message text and
\* tool-call parts, a tool message tool-result parts
ModelMessage(role, text, calls, results) ==
    [role |-> role, text |-> text, calls |-> calls, results |-> results]

UserMessage(text) == ModelMessage("user", text, <<>>, <<>>)

\* asToolOutput: {type: "json", value}
asToolOutput(value) == [type |-> "json", value |-> value]

\* a step of the backend's step summary
Step(text, toolCalls, toolResults) ==
    [text |-> text, toolCalls |-> toolCalls, toolResults |-> toolResults]

EmptyStep == Step(<<>>, <<>>, <<>>)

\* the tools of createTemplateAgentTools that carry an execute function
HasExecute(name) == name \in {"listFiles", "readFile"}

SeqToSet(s) == {s[i] : i \in DOMAIN s}

\* Array.prototype.filter
filter(s, Keep(_)) == SelectSeq(s, Keep)

\* getToolCallArgs throws unless the arguments are an object
getToolCallArgsThrows(toolCall) == ~isRecord(toolCall.args)

\* getPendingToolCalls keeping only the first pending call
getPendingToolCallsFirstOnly(steps) ==
    IF steps = <<>> THEN <<>>
    ELSE LET lastStep == steps[Len(steps)]
             resultCallIds == {lastStep.toolResults[i].toolCallId :
                                  i \in DOMAIN lastStep.toolResults}
             Keep(toolCall) == /\ toolCall.toolCallId \notin resultCallIds
                               /\ toolCall.toolName \in {"editFile", "deleteFile"}
             kept == filter(lastStep.toolCalls, Keep)
         IN  IF kept = <<>> THEN <<>> ELSE <<kept[1]>>

\* getPendingToolCalls: the calls of the last step that have no result in
\* that step and are editFile or deleteFile, in the order they were emitted
getPendingToolCalls(steps) ==
    IF steps = <<>> THEN <<>>
    ELSE LET lastStep == steps[Len(steps)]
             resultCallIds == {lastStep.toolResults[i].toolCallId :
                                  i \in DOMAIN lastStep.toolResults}
             Keep(toolCall) == /\ toolCall.toolCallId \notin resultCallIds
                               /\ toolCall.toolName \in {"editFile", "deleteFile"}
         IN  filter(lastStep.toolCalls, Keep)

\* getPendingToolCalls maps every kept call through getToolCallArgs
getPendingToolCallsThrows(steps) ==
    \E i \in DOMAIN getPendingToolCalls(steps) :
        getToolCallArgsThrows(getPendingToolCalls(steps)[i])

\* the loop body over steps pushing the tool message without testing
\* step.toolResults.length
StepMessagesAlwaysTool(step) ==
    (IF step.text # <<>> \/ step.toolCalls # <<>>
     THEN <<ModelMessage("assistant", step.text, step.toolCalls, <<>>)>>
     ELSE <<>>)
    \o
    <<ModelMessage("tool", <<>>, <<>>,
                [i \in DOMAIN step.toolResults |->
                    ToolResultPart(step.toolResults[i].toolCallId,
                                   step.toolResults[i].toolName,
                                   asToolOutput(step.toolResults[i].output))])>>

\* the messages one step adds to the history (runStream, the loop body
\* over steps)
StepMessages(step) ==
    (IF step.text # <<>> \/ step.toolCalls # <<>>
     THEN <<ModelMessage("assistant", step.text, step.toolCalls, <<>>)>>
     ELSE <<>>)
    \o
    (IF Len(step.toolResults) > 0
     THEN <<ModelMessage("tool", <<>>, <<>>,
                [i \in DOMAIN step.toolResults |->
                    ToolResultPart(step.toolResults[i].toolCallId,
                                   step.toolResults[i].toolName,
                                   asToolOutput(step.toolResults[i].output))])>>
     ELSE <<>>)

RECURSIVE StepsMessages(_)
StepsMessages(steps) ==
    IF steps = <<>> THEN <<>>
    ELSE StepMessages(steps[1]) \o StepsMessages(Tail(steps))

\* nextMessages of runStream: the submitted messages, then every step's
nextMessagesOf(coreMessages, steps) == coreMessages \o StepsMessages(steps)

\* the history rebuild calls getToolCallArgs on every tool call of every step
RebuildThrows(steps) ==
    \E i \in DOMAIN steps : \E j \in DOMAIN steps[i].toolCalls :
        getToolCallArgsThrows(steps[i].toolCalls[j])

\* updateAssistantMessage: replace the first message with this id
\* (findIndex), or append a new assistant message
updateAssistantMessage(prev, id, content, toolCalls) ==
    IF \E k \in DOMAIN prev : prev[k].id = id
    THEN LET index == CHOOSE k \in DOMAIN prev :
                          prev[k].id = id /\ \A h \in 1..(k - 1) : prev[h].id # id
         IN  [prev EXCEPT ![index] =
                 [prev[index] EXCEPT !.content = content, !.toolCalls = toolCalls]]
    ELSE Append(prev, DisplayMessage(id, "assistant", content, toolCalls))

\* executePendingTool, the setMessages updater: every displayed tool call
\* with the pending call's id gets the result
MarkResolved(prev, pending, resultValue) ==
    [k \in DOMAIN prev |->
        [prev[k] EXCEPT !.toolCalls =
            [j \in DOMAIN prev[k].toolCalls |->
                IF prev[k].toolCalls[j].toolCallId = pending.toolCallId
                THEN [prev[k].toolCalls[j] EXCEPT !.result = resultValue,
                                                  !.state = "result"]
                ELSE prev[k].toolCalls[j]]]]

\* executePendingTool, the tool message appended to messagesRef
ToolMessage(pending, resultValue) ==
    ModelMessage("tool", <<>>, <<>>,
        <<ToolResultPart(pending.toolCallId, pending.toolName,
                         asToolOutput(resultValue))>>)


\* ------------------------------------------- the single-call variant
\* The earlier variant of the hook keeps one pending call or null.
Null == [null |-> TRUE]

\* getPendingToolCall: the first call of the last step without a result in
\* that step, when it is an editFile or deleteFile call; else null
getPendingToolCall(steps) ==
    IF steps = <<>> THEN Null
    ELSE LET lastStep == steps[Len(steps)]
             resultCallIds == {lastStep.toolResults[i].toolCallId :
                                  i \in DOMAIN lastStep.toolResults}
             unresolved == {k \in DOMAIN lastStep.toolCalls :
                               lastStep.toolCalls[k].toolCallId \notin resultCallIds}
         IN  IF unresolved = {} THEN Null
             ELSE LET pendingToolCall ==
                          lastStep.toolCalls[CHOOSE k \in unresolved :
                                                 \A h \in unresolved : k <= h]
                  IN  IF pendingToolCall.toolName \notin {"editFile", "deleteFile"}
                      THEN Null
                      ELSE pendingToolCall

\* the pending call the multi-call variant exposes: the head of its queue
pendingApproval(queue) == IF Len(queue) > 0 THEN queue[1] ELSE Null

\* approve of the single-call variant with arguments that pass its typeof
\* tests: the history after the executor's result is appended
approveSingle(history, pending, tree) ==
    LET toolResult ==
            IF pending.toolName = "editFile"
            THEN executeEditFile(tree, pending.args.path.v, pending.args.oldContent.v,
                                 pending.args.newContent.v).result
            ELSE executeDeleteFile(tree, pending.args.path.v).result
    IN  Append(history,
               ModelMessage("tool", <<>>, <<>>,
                   <<ToolResultPart(pending.toolCallId, pending.toolName,
                                    asToolOutput(toolResult))>>))

\* reject of the single-call variant: the history after the denial is
\* appended, its output being {type: "execution-denied", reason}
rejectSingle(history, pending) ==
    Append(history,
           ModelMessage("tool", <<>>, <<>>,
               <<ToolResultPart(pending.toolCallId, pending.toolName,
                                [type |-> "execution-denied",
                                 reason |-> "User rejected this action."])>>))

\* ------------------------------------------------- AI bridge discovery
\* The body of a model-list response.  obj is FALSE when the body is not
\* an object; isArray is FALSE when its data field is not an array.
Body(obj, isArray, items) == [obj |-> obj, data |-> [isArray |-> isArray, items |-> items]]

\* one element of body.data: obj is FALSE when it is not an object
Entry(obj, id) == [obj |-> obj, id |-> id]

\* the outcome of one axios GET with validateStatus: () => true: the
\* request is rejected (network error, timeout), or any status resolves
RejectedRequest == [kind |-> "rejected"]
Response(code, body) == [kind |-> "response", status |-> code, body |-> body]
Unprobed == [kind |-> "none"]

\* a settled promise
Rejected == [kind |-> "rejected"]
Fulfilled(value) == [kind |-> "fulfilled", value |-> value]

\* the outcome of a queryFn
Unset == [kind |-> "unset"]
Throws == [kind |-> "throws"]
Returns(value) == [kind |-> "returns", value |-> value]

AIBridgeModel(id, provider) == [id |-> id, provider |-> provider]

RECURSIVE FlatMapModels(_, _)
\* body.data.flatMap: an element that is an object with a non-empty string
\* id yields one model, every other element none
FlatMapModels(items, provider) ==
    IF items = <<>> THEN <<>>
    ELSE LET model == Head(items)
             kept == IF ~isRecord(model) \/ ~IsString(model.id) THEN <<>>
                     ELSE IF Len(model.id.v) = 0 THEN <<>>
                     ELSE <<AIBridgeModel(model.id.v, provider)>>
         IN  kept \o FlatMapModels(Tail(items), provider)

parseProviderModels(body, provider) ==
    IF ~isRecord(body) \/ ~body.data.isArray THEN <<>>
    ELSE FlatMapModels(body.data.items, provider)

\* the promise fetchProviderModels returns for the probe's outcome
fetchProviderModels(probe, provider) ==
    IF probe.kind = "rejected" THEN Rejected
    ELSE IF probe.status < 200 \/ probe.status >= 300 THEN Fulfilled(<<>>)
    ELSE Fulfilled(parseProviderModels(probe.body, provider))

\* `${model.provider}:${model.id}`
getModelKey(model) == <<model.provider, ":">> \o model.id

RECURSIVE DedupeFrom(_, _, _)
\* the loop over the discovered models: seen is seenModelKeys, out the
\* list built so far
DedupeFrom(models, seen, out) ==
    IF models = <<>> THEN out
    ELSE LET modelKey == getModelKey(Head(models))
         IN  IF modelKey \in seen THEN DedupeFrom(Tail(models), seen, out)
             ELSE DedupeFrom(Tail(models), seen \cup {modelKey},
                             Append(out, Head(models)))

\* promise.catch(() => [])
CatchEmpty(promise) == IF promise.kind = "rejected" THEN <<>> ELSE promise.value

\* aiBridgeAvailable's queryFn: the await of the GET is not guarded
aiBridgeAvailable(probe) ==
    IF probe.kind = "rejected" THEN Throws
    ELSE Returns(probe.status >= 200 /\ probe.status < 300)

\* aiBridgeModels' queryFn, the variant that catches each probe
aiBridgeModels(openAIProbe, anthropicProbe) ==
    LET openAIModels == CatchEmpty(fetchProviderModels(openAIProbe, "openai"))
        anthropicModels == CatchEmpty(fetchProviderModels(anthropicProbe, "anthropic"))
    IN  Returns(DedupeFrom(openAIModels \o anthropicModels, {}, <<>>))

\* aiBridgeModels' queryFn, the Promise.allSettled variant
aiBridgeModelsAllSettled(openAIProbe, anthropicProbe) ==
    LET openAI == fetchProviderModels(openAIProbe, "openai")
        anthropic == fetchProviderModels(anthropicProbe, "anthropic")
        models == CatchEmpty(openAI) \o CatchEmpty(anthropic)
        hadProbeFailure == openAI.kind = "rejected" \/ anthropic.kind = "rejected"
    IN  IF Len(models) = 0 /\ hadProbeFailure THEN Throws
        ELSE Returns(DedupeFrom(models, {}, <<>>))

\* no query has run
BridgeUnused ==
    [openai |-> Unprobed, anthropic |-> Unprobed, available |-> Unset,
     models |-> Unset, modelsAllSettled |-> Unset]


\* ----------------------------------------------------------------- state
VARIABLES
    status,            \* useState<AgentStatus>: the value last set
    rStatus,           \* status as captured by the callbacks of the last render
    pendingApprovals,  \* useState<PendingToolCall[]>: the value last set
    rPending,          \* pendingApprovals as captured by the last render
    messages,          \* useState<DisplayMessage[]>
    messagesRef,       \* messagesRef.current: the model history
    abortRef,          \* abortRef.current: 0 for null, else the turn whose
                       \* AbortController it holds
    messageCounter,    \* messageCounter.current
    fileTree,          \* the editor's file tree behind getFileTree/setFileTree
    turns,             \* every runStream invocation, in the order started
    nextCallId,        \* the next tool-call id the backend assigns
    sinceRender,       \* approve/reject calls that acted since the last render
    profile,           \* the bounds of this behaviour: "race" or "tools"
    bridge             \* the AI bridge probes' outcomes and what the queries gave

vars == <<status, rStatus, pendingApprovals, rPending, messages, messagesRef,
          abortRef, messageCounter, fileTree, turns, nextCallId, sinceRender,
          profile, bridge>>

MaxTurns == IF profile = "race" THEN MaxTurnsRace ELSE MaxTurnsTools
MaxParts == IF profile = "race" THEN MaxPartsRace ELSE MaxPartsTools
MaxCalls == MaxCallsTools
MaxStepsModel == IF profile = "race" THEN MaxStepsRace ELSE MaxStepsTools

\* One runStream invocation.  pc is where it is suspended: "open" (await
\* agent.stream), "loop" (awaiting the next part of fullStream), "steps"
\* (await result.steps), "done" (returned) or "crashed" (an exception
\* escaped runStream).  aborted is abortController.signal.aborted.
\* currentAssistantId, currentText and currentToolCalls are runStream's
\* locals; steps and cur are the backend's finished steps and the step it is
\* producing; parts counts the parts yielded.  cancelledBy and discarded are
\* history fields: the caller of abort() ("" while the signal is not
\* aborted), and whether reset() has run since the turn was started.
Turn(coreMessages) ==
    [pc |-> "open", aborted |-> FALSE, cancelledBy |-> "", discarded |-> FALSE,
     coreMessages |-> coreMessages,
     currentAssistantId |-> 0, currentText |-> <<>>, currentToolCalls |-> <<>>,
     steps |-> <<>>, cur |-> EmptyStep, parts |-> 0]

\* runStream returns or dies: its locals and its stream are gone
Ended(t, pc) ==
    [t EXCEPT !.pc = pc, !.cancelledBy = "", !.currentAssistantId = 0,
              !.currentText = <<>>,
              !.currentToolCalls = <<>>, !.steps = <<>>, !.cur = EmptyStep,
              !.parts = 0]

InFlight(t) == t.pc \in {"open", "loop", "steps"}

\* abortRef.current?.abort().  A turn aborted inside the loop breaks out of
\* it at its next resumption and reads none of its locals again, so they
\* are dropped here.
AbortCurrent(ts, ref, by) ==
    IF ref = 0 \/ ts[ref].aborted THEN ts
    ELSE IF ts[ref].pc = "loop"
    THEN [ts EXCEPT ![ref] = [Ended(ts[ref], "loop") EXCEPT !.aborted = TRUE,
                                                            !.cancelledBy = by]]
    ELSE [ts EXCEPT ![ref].aborted = TRUE, ![ref].cancelledBy = by]

Init ==
    /\ status = "idle"
    /\ rStatus = "idle"
    /\ pendingApprovals = <<>>
    /\ rPending = <<>>
    /\ messages = <<>>
    /\ messagesRef = <<>>
    /\ abortRef = 0
    /\ messageCounter = 0
    /\ fileTree = [p \in Paths |-> IF p = <<"d">> THEN Dir ELSE Absent]
    /\ turns = <<>>
    /\ nextCallId = 1
    /\ sinceRender = 0
    /\ profile \in {"race", "tools"}
    /\ bridge = BridgeUnused

\* React re-renders: the callbacks now close over the state last set
Render ==
    /\ rStatus # status \/ rPending # pendingApprovals
    /\ rStatus' = status
    /\ rPending' = pendingApprovals
    /\ sinceRender' = 0
    /\ UNCHANGED <<status, pendingApprovals, messages, messagesRef, abortRef,
                   messageCounter, fileTree, turns, nextCallId, profile, bridge>>

\* runStream up to its first await: abort the turn abortRef holds, install
\* a new AbortController, set status streaming, call agent.stream
runStream(coreMessages) ==
    /\ Len(turns) < MaxTurns
    /\ turns' = Append(AbortCurrent(turns, abortRef, "runStream"), Turn(coreMessages))
    /\ abortRef' = Len(turns) + 1
    /\ status' = "streaming"

\* the texts a caller passes to send
SendTexts == {<<>>, <<" ">>, <<"h", " ">>, <<" ", "h">>}

sendAccepts(text) ==
    /\ ~(rStatus = "streaming" \/ rStatus = "awaiting_approval")
    /\ abortRef = 0
    /\ trim(text) # <<>>

send(text) ==
    IF sendAccepts(text)
    THEN LET trimmed == trim(text)
             nextMessages == Append(messagesRef, UserMessage(trimmed))
         IN  /\ messagesRef' = nextMessages
             /\ messageCounter' = messageCounter + 1
             /\ messages' = Append(messages,
                    DisplayMessage(messageCounter + 1, "user", trimmed, <<>>))
             /\ runStream(nextMessages)
             /\ UNCHANGED <<rStatus, pendingApprovals, rPending, fileTree, nextCallId,
                            sinceRender, profile, bridge>>
    ELSE UNCHANGED vars


\* an approve that hands the head's arguments to the executor unchecked
approveOutcomeUnchecked(current, tree) ==
    IF current.toolName = "editFile"
    THEN executeEditFile(tree, current.args.path.v, current.args.oldContent.v,
                         current.args.newContent.v)
    ELSE executeDeleteFile(tree, current.args.path.v)

\* an approve that reports success without calling the executor
approveOutcomeSkips(current, tree) ==
    [result |-> Result("true", "", "", <<>>, <<>>), tree |-> tree]

\* approve, the re-validation and the executor call: the tool result and
\* the tree the call leaves
approveOutcome(current, tree) ==
    IF current.toolName = "editFile"
    THEN LET path == current.args.path
             oldContent == current.args.oldContent
             newContent == current.args.newContent
         IN  IF ~IsString(path) \/ ~IsString(oldContent) \/ ~IsString(newContent)
             THEN [result |-> Result("false", "", "editFile arguments are invalid",
                                     IF IsString(path) THEN path.v ELSE <<>>, <<>>),
                   tree |-> tree]
             ELSE executeEditFile(tree, path.v, oldContent.v, newContent.v)
    ELSE LET path == current.args.path
         IN  IF ~IsString(path) \/ Len(path.v) = 0
             THEN [result |-> Result("false", "", "deleteFile arguments are invalid",
                                     IF IsString(path) THEN path.v ELSE <<>>, <<>>),
                   tree |-> tree]
             ELSE executeDeleteFile(tree, path.v)

\* the common tail of approve and reject: executePendingTool, then pop the
\* head and either show the next entry or resume the model
resolveHead(current, resultValue) ==
    LET nextMessages == Append(messagesRef, ToolMessage(current, resultValue))
        remaining == Tail(rPending)
    IN  /\ sinceRender < MaxPerRender
        /\ sinceRender' = sinceRender + 1
        /\ messages' = MarkResolved(messages, current, resultValue)
        /\ messagesRef' = nextMessages
        /\ IF Len(remaining) > 0
           THEN /\ pendingApprovals' = remaining
                /\ UNCHANGED <<status, abortRef, turns>>
           ELSE /\ pendingApprovals' = <<>>
                /\ runStream(nextMessages)

approve ==
    IF rPending # <<>>
    THEN LET current == rPending[1]
             outcome == approveOutcome(current, fileTree)
         IN  /\ fileTree' = outcome.tree
             /\ resolveHead(current, outcome.result)
             /\ UNCHANGED <<rStatus, rPending, messageCounter, nextCallId, profile, bridge>>
    ELSE UNCHANGED vars

\* a reject that runs the executor of the head before reporting the rejection
rejectExecutes ==
    IF rPending # <<>>
    THEN LET current == rPending[1]
             outcome == approveOutcome(current, fileTree)
         IN  /\ fileTree' = outcome.tree
             /\ resolveHead(current, RejectionResult)
             /\ UNCHANGED <<rStatus, rPending, messageCounter, nextCallId, profile, bridge>>
    ELSE UNCHANGED vars

reject ==
    IF rPending # <<>>
    THEN LET current == rPending[1]
         IN  /\ resolveHead(current, RejectionResult)
             /\ UNCHANGED <<rStatus, rPending, messageCounter, fileTree, nextCallId,
                            profile, bridge>>
    ELSE UNCHANGED vars

stop ==
    /\ turns' = AbortCurrent(turns, abortRef, "stop")
    /\ abortRef' = 0
    /\ status' = "idle"
    /\ UNCHANGED <<rStatus, pendingApprovals, rPending, messages, messagesRef,
                   messageCounter, fileTree, nextCallId, sinceRender, profile, bridge>>

reset ==
    /\ turns' = [i \in DOMAIN turns |->
                    [AbortCurrent(turns, abortRef, "reset")[i] EXCEPT !.discarded = TRUE]]
    /\ abortRef' = 0
    /\ messagesRef' = <<>>
    /\ messages' = <<>>
    /\ pendingApprovals' = <<>>
    /\ status' = "idle"
    /\ UNCHANGED <<rStatus, rPending, messageCounter, fileTree, nextCallId,
                   sinceRender, profile, bridge>>


\* ------------------------------------------------------ the model backend
\* The tool calls the model may announce: a read, a create-or-append edit,
\* a delete, an edit whose path is not a string, and an edit whose input
\* is not an object.
ToolCallChoices ==
    { [name |-> "readFile", args |-> Args(TRUE, Str(<<"m">>), Undefined, Undefined)],
      [name |-> "editFile", args |-> Args(TRUE, Str(<<"m">>), Str(<<>>), Str(<<"a">>))],
      [name |-> "deleteFile", args |-> Args(TRUE, Str(<<"m">>), Undefined, Undefined)],
      [name |-> "editFile", args |-> Args(TRUE, Num, Str(<<>>), Str(<<"a">>))],
      [name |-> "editFile", args |-> Args(FALSE, Undefined, Undefined, Undefined)] }

\* the "race" backend streams text only
Announceable == IF profile = "race" THEN {} ELSE ToolCallChoices

TextDeltas == {<<"x">>}

ResultIds(step) == {step.toolResults[k].toolCallId : k \in DOMAIN step.toolResults}

\* the calls of a step the backend still has to execute
Unexecuted(step) ==
    {k \in DOMAIN step.toolCalls :
        /\ HasExecute(step.toolCalls[k].toolName)
        /\ step.toolCalls[k].toolCallId \notin ResultIds(step)}

\* the tool loop goes on to another step when the last step called tools,
\* every call has its result, and the step budget is not used up
LoopContinues(t) ==
    IF t.steps = <<>> THEN TRUE
    ELSE LET lastStep == t.steps[Len(t.steps)]
         IN  /\ lastStep.toolCalls # <<>>
             /\ \A k \in DOMAIN lastStep.toolCalls :
                    lastStep.toolCalls[k].toolCallId \in ResultIds(lastStep)
             /\ Len(t.steps) < MaxStepsModel

\* the loop without its test of abortController.signal.aborted
StepOpenIgnoresAbort(t) ==
    /\ t.pc = "loop"
    /\ t.cur # EmptyStep \/ LoopContinues(t)

\* a part of the current step may be yielded
StepOpen(t) ==
    /\ t.pc = "loop"
    /\ ~t.aborted
    /\ t.cur # EmptyStep \/ LoopContinues(t)

StreamUnchanged ==
    UNCHANGED <<rStatus, rPending, messagesRef, fileTree, sinceRender, profile, bridge>>

\* a refreshAssistantMessage whose ensureAssistantId takes the counter's
\* value without advancing it
refreshAssistantMessageReusesId(i, text, calls, cur, more) ==
    LET t == turns[i]
        id == IF t.currentAssistantId # 0 THEN t.currentAssistantId
              ELSE messageCounter
    IN  /\ messageCounter' = messageCounter
        /\ messages' = updateAssistantMessage(messages, id, text, calls)
        /\ turns' = [turns EXCEPT ![i] =
                [t EXCEPT !.currentAssistantId = id, !.currentText = text,
                          !.currentToolCalls = calls, !.cur = cur,
                          !.parts = t.parts + more]]

\* refreshAssistantMessage: ensureAssistantId, then updateAssistantMessage
refreshAssistantMessage(i, text, calls, cur, more) ==
    LET t == turns[i]
        id == IF t.currentAssistantId # 0 THEN t.currentAssistantId
              ELSE messageCounter + 1
    IN  /\ messageCounter' = IF t.currentAssistantId # 0 THEN messageCounter
                             ELSE messageCounter + 1
        /\ messages' = updateAssistantMessage(messages, id, text, calls)
        /\ turns' = [turns EXCEPT ![i] =
                [t EXCEPT !.currentAssistantId = id, !.currentText = text,
                          !.currentToolCalls = calls, !.cur = cur,
                          !.parts = t.parts + more]]

\* await agent.stream(...) resolves
OpenResolves(i) ==
    /\ turns[i].pc = "open"
    /\ turns' = [turns EXCEPT ![i].pc = "loop"]
    /\ UNCHANGED <<status, rStatus, pendingApprovals, rPending, messages, messagesRef,
                   abortRef, messageCounter, fileTree, nextCallId, sinceRender,
                   profile, bridge>>

\* await agent.stream(...) rejects: the first catch of runStream
OpenRejects(i) ==
    /\ turns[i].pc = "open"
    /\ status' = "error"
    /\ abortRef' = 0
    /\ turns' = [turns EXCEPT ![i] = Ended(turns[i], "done")]
    /\ UNCHANGED <<rStatus, pendingApprovals, rPending, messages, messagesRef,
                   messageCounter, fileTree, nextCallId, sinceRender, profile, bridge>>

\* case "text-delta"
TextDelta(i, text) ==
    LET t == turns[i]
    IN  /\ StepOpen(t)
        /\ t.parts < MaxParts
        /\ t.cur.toolResults = <<>>
        /\ refreshAssistantMessage(i, t.currentText \o text, t.currentToolCalls,
                                   [t.cur EXCEPT !.text = @ \o text], 1)
        /\ UNCHANGED <<status, pendingApprovals, abortRef, nextCallId>>
        /\ StreamUnchanged

\* case "tool-call": getToolCallArgs throws into the catch of the loop when
\* the input is not an object
ToolCallAnnounced(i, choice) ==
    LET t == turns[i]
        streamToolCall == Call(nextCallId, choice.name, choice.args)
    IN  /\ StepOpen(t)
        /\ t.parts < MaxParts
        /\ nextCallId <= MaxCalls
        /\ t.cur.toolResults = <<>>
        /\ nextCallId' = nextCallId + 1
        /\ IF getToolCallArgsThrows(streamToolCall)
           THEN /\ status' = "error"
                /\ abortRef' = 0
                /\ turns' = [turns EXCEPT ![i] = Ended(turns[i], "done")]
                /\ UNCHANGED <<messages, messageCounter, pendingApprovals>>
           ELSE /\ refreshAssistantMessage(i, t.currentText,
                        Append(t.currentToolCalls,
                               DisplayToolCall(streamToolCall.toolCallId,
                                               streamToolCall.toolName,
                                               streamToolCall.args, NoResult, "pending")),
                        [t.cur EXCEPT !.toolCalls = Append(@, streamToolCall)], 1)
                /\ UNCHANGED <<status, pendingApprovals, abortRef>>

\* editFile and deleteFile are declared without an execute function: the
\* announcement of a call leaves the file tree alone
ToolCallPart(i, choice) ==
    /\ ToolCallAnnounced(i, choice)
    /\ StreamUnchanged

\* case "tool-result": the backend has run a tool that has an execute
\* function; the matching displayed call gets the output.  The result of an
\* announced call is not held back by the bound on parts.
ToolResultArrives(i, k) ==
    LET t == turns[i]
        call == t.cur.toolCalls[k]
        output == readFileExecute(fileTree, call.args.path.v)
        part == ToolResultPart(call.toolCallId, call.toolName, output)
    IN  /\ StepOpen(t)
        /\ k \in Unexecuted(t.cur)
        /\ refreshAssistantMessage(i, t.currentText,
                [j \in DOMAIN t.currentToolCalls |->
                    IF /\ t.currentToolCalls[j].toolCallId = part.toolCallId
                       /\ \A h \in 1..(j - 1) :
                              t.currentToolCalls[h].toolCallId # part.toolCallId
                    THEN [t.currentToolCalls[j] EXCEPT !.state = "result",
                                                       !.result = part.output]
                    ELSE t.currentToolCalls[j]],
                [t.cur EXCEPT !.toolResults = Append(@, part)], 1)
        /\ UNCHANGED <<status, pendingApprovals, abortRef, nextCallId>>
        /\ StreamUnchanged

\* case "finish-step"
FinishStep(i) ==
    LET t == turns[i]
    IN  /\ StepOpen(t)
        /\ Unexecuted(t.cur) = {}
        /\ turns' = [turns EXCEPT ![i] =
                [t EXCEPT !.currentAssistantId = 0, !.currentText = <<>>,
                          !.currentToolCalls = <<>>,
                          !.steps = Append(t.steps, t.cur), !.cur = EmptyStep]]
        /\ UNCHANGED <<status, pendingApprovals, messages, abortRef, messageCounter,
                       nextCallId>>
        /\ StreamUnchanged

\* fullStream ends and the turn was not aborted: on to await result.steps
StreamEnds(i) ==
    LET t == turns[i]
    IN  /\ t.pc = "loop"
        /\ ~t.aborted
        /\ t.cur = EmptyStep
        /\ ~LoopContinues(t)
        /\ turns' = [turns EXCEPT ![i].pc = "steps"]
        /\ UNCHANGED <<status, pendingApprovals, messages, abortRef, messageCounter,
                       nextCallId>>
        /\ StreamUnchanged

\* the loop is resumed (a part, or the end of the stream) after the signal
\* was aborted: break, then the aborted check after the loop
AbortObserved(i) ==
    /\ turns[i].pc = "loop"
    /\ turns[i].aborted
    /\ status' = "idle"
    /\ abortRef' = 0
    /\ turns' = [turns EXCEPT ![i] = Ended(turns[i], "done")]
    /\ UNCHANGED <<pendingApprovals, messages, messageCounter, nextCallId>>
    /\ StreamUnchanged

\* fullStream throws: the catch of the loop
StreamThrows(i) ==
    /\ turns[i].pc = "loop"
    /\ status' = IF ~turns[i].aborted THEN "error" ELSE status
    /\ abortRef' = 0
    /\ turns' = [turns EXCEPT ![i] = Ended(turns[i], "done")]
    /\ UNCHANGED <<pendingApprovals, messages, messageCounter, nextCallId>>
    /\ StreamUnchanged

\* await result.steps resolves: rebuild the history from the steps, then
\* queue the pending approvals or go idle
StepsResolve(i) ==
    LET t == turns[i]
        steps == t.steps
        nextMessages == nextMessagesOf(t.coreMessages, steps)
        nextPending == getPendingToolCalls(steps)
    IN  /\ t.pc = "steps"
        /\ UNCHANGED <<rStatus, rPending, messages, messageCounter, fileTree, nextCallId,
                       sinceRender, profile, bridge>>
        /\ IF RebuildThrows(steps)
           THEN /\ turns' = [turns EXCEPT ![i] = Ended(turns[i], "crashed")]
                /\ UNCHANGED <<status, pendingApprovals, messagesRef, abortRef>>
           ELSE /\ messagesRef' = nextMessages
                /\ IF getPendingToolCallsThrows(steps)
                   THEN /\ turns' = [turns EXCEPT ![i] = Ended(turns[i], "crashed")]
                        /\ UNCHANGED <<status, pendingApprovals, abortRef>>
                   ELSE /\ turns' = [turns EXCEPT ![i] = Ended(turns[i], "done")]
                        /\ abortRef' = 0
                        /\ IF Len(nextPending) > 0
                           THEN /\ pendingApprovals' = nextPending
                                /\ status' = "awaiting_approval"
                           ELSE /\ pendingApprovals' = <<>>
                                /\ status' = "idle"

\* await result.steps rejects: nothing in runStream catches it
StepsReject(i) ==
    /\ turns[i].pc = "steps"
    /\ turns' = [turns EXCEPT ![i] = Ended(turns[i], "crashed")]
    /\ UNCHANGED <<status, rStatus, pendingApprovals, rPending, messages, messagesRef,
                   abortRef, messageCounter, fileTree, nextCallId, sinceRender,
                   profile, bridge>>

Next ==
    \/ Render
    \/ \E text \in SendTexts : send(text)
    \/ approve
    \/ reject
    \/ stop
    \/ reset
    \/ \E i \in DOMAIN turns : OpenResolves(i)
    \/ \E i \in DOMAIN turns : OpenRejects(i)
    \/ \E i \in DOMAIN turns : \E text \in TextDeltas : TextDelta(i, text)
    \/ \E i \in DOMAIN turns : \E choice \in Announceable : ToolCallPart(i, choice)
    \/ \E i \in DOMAIN turns : \E k \in DOMAIN turns[i].cur.toolCalls :
           ToolResultArrives(i, k)
    \/ \E i \in DOMAIN turns : FinishStep(i)
    \/ \E i \in DOMAIN turns : StreamEnds(i)
    \/ \E i \in DOMAIN turns : AbortObserved(i)
    \/ \E i \in DOMAIN turns : StreamThrows(i)
    \/ \E i \in DOMAIN turns : StepsResolve(i)
    \/ \E i \in DOMAIN turns : StepsReject(i)

Spec == Init /\ [][Next]_vars

\* ------------------------------------------------- the sequential scenario
\* One user working through the panel: every call of send/approve/reject
\* comes from the current render, nobody stops or resets, the model sends
\* well-formed tool calls, and neither the stream nor the step summary
\* fails.  The event loop keeps running: renders and stream continuations
\* that are due happen.
Rendered == rStatus = status /\ rPending = pendingApprovals

WellFormed == {choice \in Announceable :
                  /\ isRecord(choice.args)
                  /\ IsString(choice.args.path)}

BackendStep ==
    \/ \E i \in DOMAIN turns : OpenResolves(i)
    \/ \E i \in DOMAIN turns : \E text \in TextDeltas : TextDelta(i, text)
    \/ \E i \in DOMAIN turns : \E choice \in WellFormed : ToolCallPart(i, choice)
    \/ \E i \in DOMAIN turns : \E k \in DOMAIN turns[i].cur.toolCalls :
           ToolResultArrives(i, k)
    \/ \E i \in DOMAIN turns : FinishStep(i)
    \/ \E i \in DOMAIN turns : StreamEnds(i)
    \/ \E i \in DOMAIN turns : StepsResolve(i)

ScenarioNext ==
    \/ Render
    \/ Rendered /\ \E text \in SendTexts : sendAccepts(text) /\ send(text)
    \/ Rendered /\ rPending # <<>> /\ approve
    \/ Rendered /\ rPending # <<>> /\ reject
    \/ BackendStep

ScenarioSpec ==
    Init /\ [][ScenarioNext]_vars /\ WF_vars(Render) /\ WF_vars(BackendStep)

\* ------------------------------------------- the scenario with failures
\* The sequential user of the scenario above, nobody stops or resets, but
\* the backend may announce any call and may fail: agent.stream rejects,
\* fullStream throws, or result.steps rejects.  Every await of a turn is
\* settled eventually, and renders that are due happen.
BackendSettles ==
    \/ \E i \in DOMAIN turns : OpenResolves(i)
    \/ \E i \in DOMAIN turns : OpenRejects(i)
    \/ \E i \in DOMAIN turns : \E text \in TextDeltas : TextDelta(i, text)
    \/ \E i \in DOMAIN turns : \E choice \in Announceable : ToolCallPart(i, choice)
    \/ \E i \in DOMAIN turns : \E k \in DOMAIN turns[i].cur.toolCalls :
           ToolResultArrives(i, k)
    \/ \E i \in DOMAIN turns : FinishStep(i)
    \/ \E i \in DOMAIN turns : StreamEnds(i)
    \/ \E i \in DOMAIN turns : StreamThrows(i)
    \/ \E i \in DOMAIN turns : StepsResolve(i)
    \/ \E i \in DOMAIN turns : StepsReject(i)

FailureNext ==
    \/ Render
    \/ Rendered /\ \E text \in SendTexts : sendAccepts(text) /\ send(text)
    \/ Rendered /\ rPending # <<>> /\ approve
    \/ Rendered /\ rPending # <<>> /\ reject
    \/ BackendSettles

FailureSpec ==
    Init /\ [][FailureNext]_vars /\ WF_vars(Render) /\ WF_vars(BackendSettles)

\* ------------------------------------------------------ the tools applied
\* The executors applied to every small input: the hook starts with one
\* approval-required call queued, over a tree in which "m" is absent or a
\* file and "d" is a directory, and the user approves it.
ToolChars == {"a", "b", "$"}

StringsUpTo(n) == UNION {[1..k -> ToolChars] : k \in 0..n}

ToolTrees ==
    {[p \in Paths |-> IF p = <<"d">> THEN Dir ELSE entry] :
        entry \in {Absent} \cup {File(text) : text \in StringsUpTo(MaxContentLen)}}

\* calls whose arguments are an object with a field of the wrong type, or
\* with an empty path
BadlyTypedCalls ==
    {Call(1, "editFile", Args(TRUE, Num, Str(<<>>), Str(<<"a">>))),
     Call(1, "editFile", Args(TRUE, Str(<<"m">>), Num, Str(<<"a">>))),
     Call(1, "editFile", Args(TRUE, Str(<<"m">>), Str(<<>>), Undefined)),
     Call(1, "deleteFile", Args(TRUE, Num, Undefined, Undefined)),
     Call(1, "deleteFile", Args(TRUE, Str(<<>>), Undefined, Undefined))}

ToolCalls ==
    {Call(1, "editFile", Args(TRUE, Str(path), Str(oldContent), Str(newContent))) :
        path \in Paths, oldContent \in StringsUpTo(MaxArgLen),
        newContent \in StringsUpTo(MaxArgLen)}
    \cup {Call(1, "deleteFile", Args(TRUE, Str(path), Undefined, Undefined)) :
              path \in Paths}
    \cup BadlyTypedCalls

\* The state a first turn leaves when its only step holds this call: the
\* user message and the assistant message carrying the call are in the
\* history and in the message list, the call is queued and rendered.
ToolInit ==
    \E call \in ToolCalls :
    /\ status = "awaiting_approval"
    /\ rStatus = "awaiting_approval"
    /\ pendingApprovals = <<call>>
    /\ rPending = pendingApprovals
    /\ messages = <<DisplayMessage(1, "user", <<"h">>, <<>>),
                    DisplayMessage(2, "assistant", <<>>,
                        <<DisplayToolCall(call.toolCallId, call.toolName, call.args,
                                          NoResult, "pending")>>)>>
    /\ messagesRef = <<UserMessage(<<"h">>),
                       ModelMessage("assistant", <<>>, <<call>>, <<>>)>>
    /\ abortRef = 0
    /\ messageCounter = 2
    /\ fileTree \in ToolTrees
    /\ turns = <<Ended(Turn(<<UserMessage(<<"h">>)>>), "done")>>
    /\ nextCallId = 2
    /\ sinceRender = 0
    /\ profile = "tools"
    /\ bridge = BridgeUnused

ToolNext ==
    \/ rPending # <<>> /\ approve
    \/ Render

ToolSpec == ToolInit /\ [][ToolNext]_vars

\* ------------------------------------------------- the bridge queries run
\* The three query functions applied to every small pair of probe outcomes.
ProbeStatuses == {199, 200, 299, 300}

ModelIds == {<<>>, <<"a">>, <<"b">>}

BodyEntries ==
    {Entry(FALSE, Undefined), Entry(TRUE, Num)}
    \cup {Entry(TRUE, Str(id)) : id \in ModelIds}

Bodies ==
    {Body(FALSE, FALSE, <<>>), Body(TRUE, FALSE, <<>>)}
    \cup {Body(TRUE, TRUE, items) :
              items \in UNION {[1..k -> BodyEntries] : k \in 0..MaxModels}}

ProbeOutcomes ==
    {RejectedRequest}
    \cup {Response(code, body) : code \in ProbeStatuses, body \in Bodies}

BridgeInit ==
    /\ status = "idle"
    /\ rStatus = "idle"
    /\ pendingApprovals = <<>>
    /\ rPending = <<>>
    /\ messages = <<>>
    /\ messagesRef = <<>>
    /\ abortRef = 0
    /\ messageCounter = 0
    /\ fileTree = [p \in Paths |-> IF p = <<"d">> THEN Dir ELSE Absent]
    /\ turns = <<>>
    /\ nextCallId = 1
    /\ sinceRender = 0
    /\ profile = "tools"
    /\ \E openAIProbe \in ProbeOutcomes, anthropicProbe \in ProbeOutcomes :
           bridge = [BridgeUnused EXCEPT !.openai = openAIProbe,
                                         !.anthropic = anthropicProbe]

HookUnchanged ==
    UNCHANGED <<status, rStatus, pendingApprovals, rPending, messages, messagesRef,
                abortRef, messageCounter, fileTree, turns, nextCallId, sinceRender,
                profile>>

AvailableQuery ==
    /\ bridge.available.kind = "unset"
    /\ bridge' = [bridge EXCEPT !.available = aiBridgeAvailable(bridge.openai)]
    /\ HookUnchanged

ModelsQuery ==
    /\ bridge.models.kind = "unset"
    /\ bridge' = [bridge EXCEPT
                      !.models = aiBridgeModels(bridge.openai, bridge.anthropic)]
    /\ HookUnchanged

ModelsAllSettledQuery ==
    /\ bridge.modelsAllSettled.kind = "unset"
    /\ bridge' = [bridge EXCEPT
                      !.modelsAllSettled =
                          aiBridgeModelsAllSettled(bridge.openai, bridge.anthropic)]
    /\ HookUnchanged

BridgeNext ==
    \/ AvailableQuery
    \/ ModelsQuery
    \/ ModelsAllSettledQuery

BridgeSpec == BridgeInit /\ [][BridgeNext]_vars

\* ------------------------------------------------- the reconciler applied
\* The end of runStream applied to every small step summary: one turn waits
\* at await result.steps, and the summary resolves.
ReconcilerNames == {"readFile", "editFile", "deleteFile"}

ReconcilerArgs(name) ==
    IF name = "editFile" THEN Args(TRUE, Str(<<"m">>), Str(<<>>), Str(<<"a">>))
    ELSE Args(TRUE, Str(<<"m">>), Undefined, Undefined)

ReconcilerOutput == Result("none", "", "File not found", <<>>, <<>>)

NameLists == UNION {[1..k -> ReconcilerNames] : k \in 0..MaxStepCalls}

\* the call ids of a step's results: no id twice
ResultIdLists ==
    {ids \in UNION {[1..k -> 1..MaxResultId] : k \in 0..MaxStepCalls} :
        \A a, b \in DOMAIN ids : ids[a] = ids[b] => a = b}

\* a step whose calls have the ids first, first + 1, ...
StepOf(text, names, ids, first) ==
    Step(text,
         [k \in DOMAIN names |->
             Call(first + k - 1, names[k], ReconcilerArgs(names[k]))],
         [k \in DOMAIN ids |->
             ToolResultPart(ids[k],
                            IF ids[k] - first + 1 \in DOMAIN names
                            THEN names[ids[k] - first + 1] ELSE "readFile",
                            ReconcilerOutput)])

StepsFrom(first) ==
    {StepOf(text, names, ids, first) :
        text \in {<<>>, <<"x">>}, names \in NameLists, ids \in ResultIdLists}

RECURSIVE PartsIn(_)
\* the parts fullStream yielded for these steps
PartsIn(steps) ==
    IF steps = <<>> THEN 0
    ELSE (IF steps[1].text = <<>> THEN 0 ELSE 1) + Len(steps[1].toolCalls)
         + Len(steps[1].toolResults) + PartsIn(Tail(steps))

RECURSIVE CallsIn(_)
CallsIn(steps) ==
    IF steps = <<>> THEN 0 ELSE Len(steps[1].toolCalls) + CallsIn(Tail(steps))

\* the assistant message the stream loop displayed for a step
StepDisplay(step, id) ==
    DisplayMessage(id, "assistant", step.text,
        [k \in DOMAIN step.toolCalls |->
            LET toolCall == step.toolCalls[k]
                resolved == toolCall.toolCallId \in ResultIds(step)
            IN  DisplayToolCall(toolCall.toolCallId, toolCall.toolName, toolCall.args,
                                IF resolved THEN ReconcilerOutput ELSE NoResult,
                                IF resolved THEN "result" ELSE "pending")])

\* the summary holds at most MaxSummarySteps steps; call ids are unique in it
ReconcilerInit ==
    \E first \in StepsFrom(1) :
    \E second \in StepsFrom(1 + Len(first.toolCalls)) :
    \E n \in 0..MaxSummarySteps :
        LET steps == SubSeq(<<first, second>>, 1, n)
            shown == SelectSeq(steps, LAMBDA step : step # EmptyStep)
        IN  /\ status = "streaming"
            /\ rStatus = "streaming"
            /\ pendingApprovals = <<>>
            /\ rPending = <<>>
            /\ messages = <<DisplayMessage(1, "user", <<"h">>, <<>>)>>
                          \o [k \in 1..Len(shown) |-> StepDisplay(shown[k], k + 1)]
            /\ messagesRef = <<UserMessage(<<"h">>)>>
            /\ abortRef = 1
            /\ messageCounter = 1 + Len(shown)
            /\ fileTree = [p \in Paths |-> IF p = <<"d">> THEN Dir ELSE Absent]
            /\ turns = <<[Turn(<<UserMessage(<<"h">>)>>) EXCEPT
                              !.pc = "steps", !.steps = steps,
                              !.parts = PartsIn(steps)]>>
            /\ nextCallId = 1 + CallsIn(steps)
            /\ sinceRender = 0
            /\ profile = "tools"
            /\ bridge = BridgeUnused

ReconcilerNext ==
    \/ \E i \in DOMAIN turns : StepsResolve(i)
    \/ Render

ReconcilerSpec == ReconcilerInit /\ [][ReconcilerNext]_vars




\* ------------------------------------------------- the variants compared
\* The end of a turn over every small step summary, followed by the user's
\* approvals and rejections of what it queued.
VariantNext ==
    \/ \E i \in DOMAIN turns : StepsResolve(i)
    \/ Render
    \/ rPending # <<>> /\ approve
    \/ rPending # <<>> /\ reject

VariantSpec == ReconcilerInit /\ [][VariantNext]_vars

\* ================================================================ claims

\* the turns whose stream is open and whose signal has not been aborted
ActiveTurns == {i \in DOMAIN turns : InFlight(turns[i]) /\ ~turns[i].aborted}

\* C1: single-flight: in every reachable state at most one model stream
\* that has not been cancelled is in flight (opening, consuming parts or
\* waiting for its step summary).
C1_SingleFlight == Cardinality(ActiveTurns) <= 1


Last(seq) == seq[Len(seq)]

\* a send that passed its guards
AcceptedSend == \E text \in SendTexts : sendAccepts(text) /\ send(text)

\* an approve or a reject that found a head in its queue
ApproveActs == rPending # <<>> /\ approve
RejectActs == rPending # <<>> /\ reject

\* C2: approval gate: the file tree changes only in an approve step that
\* executes an editFile or deleteFile call which is, at that moment, the head
\* of the approval queue; the change is what that call's executor does.  No
\* stream part, no send, reject, stop, reset or render changes the tree.
C2_ApprovalGate ==
    [][fileTree' # fileTree =>
          /\ ApproveActs
          /\ pendingApprovals # <<>>
          /\ rPending[1] = pendingApprovals[1]
          /\ rPending[1].toolName \in {"editFile", "deleteFile"}
          /\ fileTree' = approveOutcome(rPending[1], fileTree).tree]_vars

\* C3: parallel approvals: every approve/reject that acts finds status
\* awaiting_approval, resolves the current head of the queue, appends one
\* tool-result message for the head's call id, pops the head, and leaves
\* status awaiting_approval while entries remain; the call that empties the
\* queue starts exactly one turn.
C3_ParallelApprovals ==
    [][(ApproveActs \/ RejectActs) =>
          /\ status = "awaiting_approval"
          /\ pendingApprovals # <<>>
          /\ rPending[1] = pendingApprovals[1]
          /\ Len(messagesRef') = Len(messagesRef) + 1
          /\ Last(messagesRef').role = "tool"
          /\ Last(messagesRef').results[1].toolCallId = pendingApprovals[1].toolCallId
          /\ pendingApprovals' = Tail(pendingApprovals)
          /\ IF Tail(pendingApprovals) # <<>>
             THEN status' = "awaiting_approval" /\ turns' = turns
             ELSE status' = "streaming" /\ Len(turns') = Len(turns) + 1]_vars

\* C4: a reject that acts leaves the file tree as it was, appends to the
\* history the tool-result of the head's call id with the result "User
\* rejected this action.", and every displayed record of that call id is
\* resolved with that result.
C4_RejectNoExecutor ==
    [][RejectActs =>
          /\ fileTree' = fileTree
          /\ messagesRef' = Append(messagesRef, ToolMessage(rPending[1], RejectionResult))
          /\ \A k \in DOMAIN messages' : \A j \in DOMAIN messages'[k].toolCalls :
                messages'[k].toolCalls[j].toolCallId = rPending[1].toolCallId
                => /\ messages'[k].toolCalls[j].state = "result"
                   /\ messages'[k].toolCalls[j].result = RejectionResult]_vars

\* C4 witness: a rejected editFile call is in the history and displayed as
\* resolved, and the file it would have created does not exist
C4_Witness ==
    /\ fileTree[<<"m">>].kind = "absent"
    /\ messagesRef # <<>>
    /\ Last(messagesRef).role = "tool"
    /\ Last(messagesRef).results[1].output = asToolOutput(RejectionResult)
    /\ Last(messagesRef).results[1].toolName = "editFile"
    /\ \E k \in DOMAIN messages : \E j \in DOMAIN messages[k].toolCalls :
          /\ messages[k].toolCalls[j].toolCallId = Last(messagesRef).results[1].toolCallId
          /\ messages[k].toolCalls[j].result = RejectionResult

\* C5: a turn cancelled by stop() adds nothing to the model history: the
\* step in which such a turn moves on leaves messagesRef unchanged.
C5_StopKeepsHistory ==
    [][\A i \in DOMAIN turns :
          (turns[i].cancelledBy = "stop" /\ turns'[i].pc # turns[i].pc)
          => messagesRef' = messagesRef]_vars

\* C6: every reset step leaves status idle, the message list, the approval
\* queue and the model history empty, and no stream in flight that has not
\* been cancelled.
C6_Reset ==
    [][reset =>
          /\ status' = "idle"
          /\ messages' = <<>>
          /\ pendingApprovals' = <<>>
          /\ messagesRef' = <<>>
          /\ ActiveTurns' = {}]_vars

\* C7: no send is accepted while status is streaming or awaiting_approval.
C7_SendOnlyFromIdle ==
    [][(status \in {"streaming", "awaiting_approval"}) => (~AcceptedSend)]_vars

\* C8: every change of status is one of the state machine's: idle to
\* streaming by an accepted send; streaming to idle, awaiting_approval or
\* error; awaiting_approval to streaming by an approve/reject that acts; any
\* state to idle by reset.
C8_StateMachine ==
    [][status' # status =>
          \/ status = "idle" /\ status' = "streaming" /\ AcceptedSend
          \/ status = "streaming" /\ status' \in {"idle", "awaiting_approval", "error"}
          \/ /\ status = "awaiting_approval" /\ status' = "streaming"
             /\ (ApproveActs \/ RejectActs)
          \/ status' = "idle" /\ reset]_vars

\* C9: status is idle only if no turn is in flight and the approval queue is
\* empty; status is awaiting_approval exactly when the queue is non-empty.
C9_StatusInvariant ==
    /\ status = "idle" =>
          /\ \A i \in DOMAIN turns : ~InFlight(turns[i]) \/ turns[i].aborted
          /\ pendingApprovals = <<>>
    /\ status = "awaiting_approval" <=> pendingApprovals # <<>>

\* C10: status leaves error by reset only.
C10_ErrorUntilReset ==
    [][(status = "error" /\ status' # "error") => reset]_vars

\* C11: a turn cancelled by stop() or reset() never sets status to error:
\* the step in which such a turn is resumed (its await settles) does not
\* change status to error.
C11_CancelNotError ==
    [][\A i \in DOMAIN turns :
          (turns[i].cancelledBy \in {"stop", "reset"} /\ turns'[i].pc # turns[i].pc)
          => (status' = "error" => status = "error")]_vars

\* C12: malformed tool arguments never reach the catch of the stream loop:
\* the step in which the model's tool call is received leaves status as it
\* was (in particular it does not become error) and the turn keeps running.
C12_MalformedArgs ==
    [][nextCallId' # nextCallId =>
          /\ status' = status
          /\ \A i \in DOMAIN turns : InFlight(turns[i]) => InFlight(turns'[i])]_vars

\* a is a proper prefix of b
IsProperPrefix(a, b) == Len(a) < Len(b) /\ SubSeq(b, 1, Len(a)) = a

\* C13: within one conversation (no reset between them) the history
\* submitted for a turn is a proper prefix of the history submitted for the
\* next turn.
C13_HistoryExtends ==
    \A i \in DOMAIN turns : \A j \in DOMAIN turns :
        (j = i + 1 /\ ~turns[i].discarded)
        => IsProperPrefix(turns[i].coreMessages, turns[j].coreMessages)

\* the tool-result entries of a history: <<position of the message, entry>>
ToolResultsOf(history) ==
    UNION {{<<k, j>> : j \in DOMAIN history[k].results} :
              k \in {h \in DOMAIN history : history[h].role = "tool"}}

\* the tool calls with this call id carried by the assistant messages of a
\* history before position k
CallsBefore(history, k, id) ==
    UNION {{<<h, j>> : j \in {c \in DOMAIN history[h].calls :
                                 history[h].calls[c].toolCallId = id}} :
              h \in {h \in 1..(k - 1) : history[h].role = "assistant"}}

\* C14: every tool-result entry of the model history answers exactly one
\* tool call of an assistant message before it, and no call id has more
\* than one tool-result entry.
C14_ResultsMatchCalls ==
    \A e \in ToolResultsOf(messagesRef) :
        LET id == messagesRef[e[1]].results[e[2]].toolCallId
        IN  /\ Cardinality(CallsBefore(messagesRef, e[1], id)) = 1
            /\ \A f \in ToolResultsOf(messagesRef) :
                  messagesRef[f[1]].results[f[2]].toolCallId = id => f = e

\* C15: a displayed tool call record that is in state result keeps its state
\* and its result value in every step, and an approve/reject that acts
\* finds no tool-result for its head's call id in the history (it has not
\* run for that call id before).
C15_ResolvedOnce ==
    [][/\ \A k \in DOMAIN messages : \A j \in DOMAIN messages[k].toolCalls :
             (/\ k \in DOMAIN messages'
              /\ messages'[k].id = messages[k].id
              /\ j \in DOMAIN messages'[k].toolCalls
              /\ messages'[k].toolCalls[j].toolCallId = messages[k].toolCalls[j].toolCallId
              /\ messages[k].toolCalls[j].state = "result")
             => messages'[k].toolCalls[j] = messages[k].toolCalls[j]
       /\ (ApproveActs \/ RejectActs)
             => \A e \in ToolResultsOf(messagesRef) :
                   messagesRef[e[1]].results[e[2]].toolCallId # rPending[1].toolCallId]_vars

\* a turn that is running has received an editFile call from the model
HoldsEditCall(t) ==
    /\ InFlight(t)
    /\ \E j \in DOMAIN t.cur.toolCalls : t.cur.toolCalls[j].toolName = "editFile"

\* the head of the captured queue is the only entry and is an editFile call
\* with empty oldContent for a path that does not exist
HeadCreates ==
    /\ Len(rPending) = 1
    /\ rPending[1].toolName = "editFile"
    /\ IsString(rPending[1].args.path)
    /\ rPending[1].args.oldContent = Str(<<>>)
    /\ IsString(rPending[1].args.newContent)
    /\ ~existsFile(rPending[1].args.path.v, fileTree)

\* C16: in the sequential scenario, (1) once the model has emitted an
\* editFile call the status becomes awaiting_approval with a non-empty
\* queue; (2) approve() of a single queued editFile call with empty
\* oldContent for an absent path leaves the tree holding that path with
\* exactly newContent and sets status streaming; (3) every streaming status
\* is followed by idle, or by awaiting_approval when the turn called tools.
C16_EndToEnd ==
    /\ (\E i \in DOMAIN turns : HoldsEditCall(turns[i]))
          ~> (status = "awaiting_approval" /\ pendingApprovals # <<>>)
    /\ [][(ApproveActs /\ HeadCreates) =>
             /\ fileTree'[rPending[1].args.path.v] = File(rPending[1].args.newContent.v)
             /\ status' = "streaming"]_vars
    /\ (status = "streaming") ~> (status = "idle" \/ status = "awaiting_approval")

\* C16 witness: the file was created by the approval, the resumed turn has
\* ended and status is idle again
C16_Witness ==
    /\ status = "idle"
    /\ Len(turns) = 2
    /\ fileTree[<<"m">>] = File(<<"a">>)
    /\ \E e \in ToolResultsOf(messagesRef) :
          /\ messagesRef[e[1]].results[e[2]].toolName = "editFile"
          /\ messagesRef[e[1]].results[e[2]].output.value.action = "created"
    /\ messagesRef[Len(messagesRef)].role = "assistant"

\* an approve that hands the head's arguments, all strings, to executeEditFile
EditActs ==
    /\ ApproveActs
    /\ rPending[1].toolName = "editFile"
    /\ IsString(rPending[1].args.path)
    /\ IsString(rPending[1].args.oldContent)
    /\ IsString(rPending[1].args.newContent)

\* the tool result the last approve/reject appended to the history
LastOutput(history) == Last(history).results[1].output.value

\* C17: edit round trip: executeEditFile with oldContent = "" for a path
\* that does not exist creates the file and returns success with action
\* created, and readFile on that path then returns exactly newContent.
C17_EditRoundTrip ==
    [][(/\ EditActs
        /\ ~existsFile(rPending[1].args.path.v, fileTree)
        /\ rPending[1].args.oldContent.v = <<>>)
       => /\ existsFile(rPending[1].args.path.v, fileTree')
          /\ LastOutput(messagesRef').success = "true"
          /\ LastOutput(messagesRef').action = "created"
          /\ LastOutput(messagesRef').path = rPending[1].args.path.v
          /\ readFileExecute(fileTree', rPending[1].args.path.v).error = ""
          /\ readFileExecute(fileTree', rPending[1].args.path.v).content
                = rPending[1].args.newContent.v]_vars

\* C17 witness: a two-character file was created and reads back
C17_Witness ==
    /\ Last(messagesRef).role = "tool"
    /\ LastOutput(messagesRef).action = "created"
    /\ readFileExecute(fileTree, <<"m">>).content = <<"$", "a">>

\* the start positions at which pat occurs in text
Occurrences(text, pat) ==
    {i \in 1..(Len(text) - Len(pat) + 1) : SubSeq(text, i, i + Len(pat) - 1) = pat}

\* the head's path names a file, and approve applies executeEditFile to it
EditsFile ==
    /\ EditActs
    /\ fileTree[rPending[1].args.path.v].kind = "file"

\* C18: ambiguous match: when a non-empty oldContent occurs in the file's
\* content at two or more start positions, executeEditFile returns an error
\* result and the tree is unchanged.
C18_AmbiguousMatch ==
    [][(/\ EditsFile
        /\ rPending[1].args.oldContent.v # <<>>
        /\ Cardinality(Occurrences(fileTree[rPending[1].args.path.v].text,
                                   rPending[1].args.oldContent.v)) >= 2)
       => /\ LastOutput(messagesRef').success = "false"
          /\ fileTree' = fileTree]_vars

\* C19: unique match: when the content holds exactly one occurrence of a
\* non-empty oldContent, executeEditFile succeeds with action edited and the
\* new content is the text before the occurrence, then newContent character
\* for character, then the text after the occurrence.
C19_UniqueReplace ==
    [][(/\ EditsFile
        /\ rPending[1].args.oldContent.v # <<>>
        /\ Cardinality(Occurrences(fileTree[rPending[1].args.path.v].text,
                                   rPending[1].args.oldContent.v)) = 1)
       => LET path == rPending[1].args.path.v
              text == fileTree[path].text
              oldContent == rPending[1].args.oldContent.v
              i == CHOOSE i \in Occurrences(text, oldContent) : TRUE
          IN  /\ LastOutput(messagesRef').success = "true"
              /\ LastOutput(messagesRef').action = "edited"
              /\ fileTree'[path] =
                    File(SubSeq(text, 1, i - 1) \o rPending[1].args.newContent.v
                         \o SubSeq(text, i + Len(oldContent), Len(text)))]_vars

\* C20: for an existing file and oldContent = "", executeEditFile appends
\* newContent to a non-empty content (action appended) and writes newContent
\* as the whole content of an empty file (action written); no other path of
\* the tree changes.
C20_AppendOrWrite ==
    [][(EditsFile /\ rPending[1].args.oldContent.v = <<>>)
       => LET path == rPending[1].args.path.v
              text == fileTree[path].text
              newContent == rPending[1].args.newContent.v
          IN  /\ LastOutput(messagesRef').success = "true"
              /\ LastOutput(messagesRef').action =
                    IF text # <<>> THEN "appended" ELSE "written"
              /\ fileTree'[path] = File(IF text # <<>> THEN text \o newContent
                                        ELSE newContent)
              /\ \A other \in DOMAIN fileTree \ {path} :
                    fileTree'[other] = fileTree[other]
              /\ DOMAIN fileTree' = DOMAIN fileTree]_vars

\* C20 witness: two characters were appended to a three-character file
C20_Witness ==
    /\ Last(messagesRef).role = "tool"
    /\ LastOutput(messagesRef).action = "appended"
    /\ fileTree[<<"m">>] = File(<<"a", "b", "$", "$", "a">>)

\* an approve that hands the head's path, a non-empty string, to
\* executeDeleteFile
DeleteActs ==
    /\ ApproveActs
    /\ rPending[1].toolName = "deleteFile"
    /\ IsString(rPending[1].args.path)
    /\ rPending[1].args.path.v # <<>>

\* C21: executeDeleteFile returns an error result and leaves the tree
\* unchanged when the path does not exist; otherwise it returns success, the
\* path no longer exists and every other path is unchanged.
C21_DeleteFile ==
    [][DeleteActs =>
          LET path == rPending[1].args.path.v
          IN  IF ~existsFile(path, fileTree)
              THEN /\ LastOutput(messagesRef').success = "false"
                   /\ LastOutput(messagesRef').error # ""
                   /\ fileTree' = fileTree
              ELSE /\ LastOutput(messagesRef').success = "true"
                   /\ ~existsFile(path, fileTree')
                   /\ DOMAIN fileTree' = DOMAIN fileTree
                   /\ \A other \in DOMAIN fileTree \ {path} :
                         fileTree'[other] = fileTree[other]]_vars

\* C21 witness: an existing file was deleted
C21_Witness ==
    /\ Last(messagesRef).role = "tool"
    /\ Last(messagesRef).results[1].toolName = "deleteFile"
    /\ LastOutput(messagesRef).success = "true"
    /\ ~existsFile(<<"m">>, fileTree)

RECURSIVE CountFrom(_, _, _)
\* the occurrences of a non-empty pat in text counted from position from,
\* left to right, the next one sought after the end of the last
CountFrom(text, pat, from) ==
    IF from + Len(pat) - 1 > Len(text) THEN 0
    ELSE IF SubSeq(text, from, from + Len(pat) - 1) = pat
    THEN 1 + CountFrom(text, pat, from + Len(pat))
    ELSE CountFrom(text, pat, from + 1)

\* the cases in which executeEditFile has to fail
EditMustFail(tree, path, oldContent) ==
    \/ ~existsFile(path, tree) /\ oldContent # <<>>
    \/ tree[path].kind = "dir"
    \/ /\ tree[path].kind = "file"
       /\ oldContent # <<>>
       /\ CountFrom(tree[path].text, oldContent, 1) # 1

InvalidHead ==
    /\ rPending # <<>>
    /\ IF rPending[1].toolName = "editFile"
       THEN \/ ~IsString(rPending[1].args.path)
            \/ ~IsString(rPending[1].args.oldContent)
            \/ ~IsString(rPending[1].args.newContent)
       ELSE \/ ~IsString(rPending[1].args.path)
            \/ rPending[1].args.path.v = <<>>

ValidationErrors == {"editFile arguments are invalid", "deleteFile arguments are invalid"}

\* C23: approve() of a head with badly typed arguments leaves the tree
\* unchanged, answers with the typed validation failure, appends that
\* tool-result for the head's call id, resolves the displayed call and pops
\* the head; a head with valid arguments is answered by the executor, never
\* with the validation failure.
C23_ApproveRevalidates ==
    [][ApproveActs =>
          IF InvalidHead
          THEN /\ fileTree' = fileTree
               /\ LastOutput(messagesRef').success = "false"
               /\ LastOutput(messagesRef').error \in ValidationErrors
               /\ Len(messagesRef') = Len(messagesRef) + 1
               /\ Last(messagesRef').role = "tool"
               /\ Last(messagesRef').results[1].toolCallId = rPending[1].toolCallId
               /\ pendingApprovals' = Tail(rPending)
               /\ \A k \in DOMAIN messages' : \A j \in DOMAIN messages'[k].toolCalls :
                     messages'[k].toolCalls[j].toolCallId = rPending[1].toolCallId
                     => /\ messages'[k].toolCalls[j].state = "result"
                        /\ messages'[k].toolCalls[j].result.success = "false"
          ELSE LastOutput(messagesRef').error \notin ValidationErrors]_vars

\* C23 witness: an editFile call with a badly typed field was answered with
\* the validation failure and is displayed as resolved
C23_Witness ==
    /\ pendingApprovals = <<>>
    /\ LastOutput(messagesRef).error = "editFile arguments are invalid"
    /\ \E k \in DOMAIN messages : \E j \in DOMAIN messages[k].toolCalls :
          /\ messages[k].toolCalls[j].state = "result"
          /\ messages[k].toolCalls[j].result.error = "editFile arguments are invalid"

\* C24: approve() and reject() called while the approval queue is empty are
\* no-ops: status, history, message list, queue and file tree are unchanged
\* and no stream is started.
C24_EmptyQueueNoOp ==
    [][(pendingApprovals = <<>> /\ (approve \/ reject)) =>
          /\ status' = status
          /\ messagesRef' = messagesRef
          /\ messages' = messages
          /\ pendingApprovals' = pendingApprovals
          /\ fileTree' = fileTree
          /\ turns' = turns]_vars

\* a probe answered with a 2xx status
ProbeOk(probe) == probe.kind = "response" /\ probe.status \in 200..299

\* C25: once aiBridgeAvailable's query function has run it has returned,
\* never thrown, and it returned true exactly when the probe was answered
\* with a status in [200, 300); a rejected request gives false.
C25_AvailableNeverThrows ==
    bridge.available.kind # "unset" =>
        /\ bridge.available.kind = "returns"
        /\ bridge.available.value = ProbeOk(bridge.openai)

\* the models a probe's answer lists: the entries of a 2xx body's data
\* array that are objects with a non-empty string id, in the body's order
Listed(probe, provider) ==
    IF ProbeOk(probe) /\ probe.body.obj /\ probe.body.data.isArray
    THEN LET good == SelectSeq(probe.body.data.items,
                               LAMBDA e : e.obj /\ e.id.t = "string" /\ e.id.v # <<>>)
         IN  [i \in 1..Len(good) |-> [id |-> good[i].id.v, provider |-> provider]]
    ELSE <<>>

\* the first position of x in the sequence s
FirstAt(s, x) == CHOOSE i \in 1..Len(s) : s[i] = x /\ \A j \in 1..(i - 1) : s[j] # x

\* outcome is a returned list that holds exactly the models the two probes
\* list, none with an empty id, each provider:id pair once, in the order
\* in which they were first seen (OpenAI's before Anthropic's)
GoodModelList(outcome, openAIProbe, anthropicProbe) ==
    /\ outcome.kind = "returns"
    /\ LET list == outcome.value
           seen == Listed(openAIProbe, "openai") \o Listed(anthropicProbe, "anthropic")
       IN  /\ \A i \in 1..Len(list) : list[i].id # <<>>
           /\ \A i, j \in 1..Len(list) :
                  (list[i].provider = list[j].provider /\ list[i].id = list[j].id)
                      => i = j
           /\ {list[i] : i \in 1..Len(list)} = {seen[i] : i \in 1..Len(seen)}
           /\ \A i, j \in 1..Len(list) :
                  i < j => FirstAt(seen, list[i]) < FirstAt(seen, list[j])
           /\ (~ProbeOk(openAIProbe) /\ ~ProbeOk(anthropicProbe)) => list = <<>>

\* C26: once aiBridgeModels' query function has run, in either of its two
\* variants, it has returned a list and not thrown, whatever the two probes
\* gave; the list is empty when neither probe was answered with a 2xx
\* status, holds no empty id and holds each provider:id pair once in
\* first-seen order.
C26_ModelsNeverThrow ==
    /\ bridge.models.kind # "unset" =>
           GoodModelList(bridge.models, bridge.openai, bridge.anthropic)
    /\ bridge.modelsAllSettled.kind # "unset" =>
           GoodModelList(bridge.modelsAllSettled, bridge.openai, bridge.anthropic)

\* the position of the call with this id among the calls of a step
CallAt(step, id) == CHOOSE k \in DOMAIN step.toolCalls : step.toolCalls[k].toolCallId = id

\* the calls of a step that await approval: editFile and deleteFile calls
\* whose id is in none of the step's own results
AwaitsApproval(step, toolCall) ==
    /\ toolCall.toolName \in {"editFile", "deleteFile"}
    /\ \A r \in DOMAIN step.toolResults :
           step.toolResults[r].toolCallId # toolCall.toolCallId

\* queue is the approval queue of the step summary steps: empty for no
\* steps, else every awaiting call of the final step, once, with its id,
\* name and arguments, in emission order, and nothing else
IsQueueOf(queue, steps) ==
    IF steps = <<>> THEN queue = <<>>
    ELSE LET final == steps[Len(steps)]
         IN  /\ \A q \in DOMAIN queue :
                    \E k \in DOMAIN final.toolCalls :
                        /\ queue[q] = final.toolCalls[k]
                        /\ AwaitsApproval(final, final.toolCalls[k])
             /\ \A k \in DOMAIN final.toolCalls :
                    AwaitsApproval(final, final.toolCalls[k]) =>
                        \E q \in DOMAIN queue : queue[q] = final.toolCalls[k]
             /\ \A p, q \in DOMAIN queue :
                    p < q => CallAt(final, queue[p].toolCallId)
                                 < CallAt(final, queue[q].toolCallId)

\* C27: when a turn's step summary resolves and the turn ends, the approval
\* queue it sets is exactly the editFile and deleteFile calls of the final
\* step that have no result in that step, all of them in emission order;
\* calls of earlier steps and of other tools are not queued, and an empty
\* summary gives an empty queue.
C27_PendingOfFinalStep ==
    [][\A i \in DOMAIN turns :
           (StepsResolve(i) /\ turns'[i].pc = "done") =>
               IsQueueOf(pendingApprovals', turns[i].steps)]_vars

\* two calls are queued while the history holds an unresolved editFile call
\* of an earlier step, which is left out
C27_Witness ==
    /\ status = "awaiting_approval"
    /\ Len(pendingApprovals) = 2
    /\ \E m \in DOMAIN messagesRef : \E c \in DOMAIN messagesRef[m].calls :
           /\ messagesRef[m].calls[c].toolName = "editFile"
           /\ messagesRef[m].calls[c] \notin SeqToSet(pendingApprovals)
           /\ \A n \in DOMAIN messagesRef : \A r \in DOMAIN messagesRef[n].results :
                  messagesRef[n].results[r].toolCallId
                      # messagesRef[m].calls[c].toolCallId

\* the assistant message of a step: its text and its tool calls, each call
\* with the id, name and arguments it was received with
AssistantOf(step) == ModelMessage("assistant", step.text, step.toolCalls, <<>>)

\* the tool message of a step: one entry per result
ToolOf(step) ==
    ModelMessage("tool", <<>>, <<>>,
        [r \in DOMAIN step.toolResults |->
            [step.toolResults[r] EXCEPT !.output = [type |-> "json", value |-> @]]])

RECURSIVE AppendedFor(_, _)
\* what a completed turn appends for its steps: per step an assistant
\* message (for every step, or only for a step that has text or tool
\* calls) and then a tool message when the step has results
AppendedFor(steps, everyStep) ==
    IF steps = <<>> THEN <<>>
    ELSE LET step == steps[1]
         IN  (IF everyStep \/ step.text # <<>> \/ step.toolCalls # <<>>
              THEN <<AssistantOf(step)>> ELSE <<>>)
             \o (IF step.toolResults # <<>> THEN <<ToolOf(step)>> ELSE <<>>)
             \o AppendedFor(Tail(steps), everyStep)

\* C28 (as amended): when a turn completes, the new history is the submitted
\* history followed, for each step in order, by one assistant message with
\* the step's text and tool calls if and only if the step has text or a
\* tool call, and then, if and only if the step has results, one tool
\* message with one entry per result; the submitted prefix is unchanged.
C28_HistoryRebuild ==
    [][\A i \in DOMAIN turns :
           (StepsResolve(i) /\ turns'[i].pc = "done") =>
               messagesRef' = turns[i].coreMessages
                                  \o AppendedFor(turns[i].steps, FALSE)]_vars

\* C28 (as stated): the same with one assistant message for every step,
\* also for a step without text and without tool calls.
C28_AssistantForEveryStep ==
    [][\A i \in DOMAIN turns :
           (StepsResolve(i) /\ turns'[i].pc = "done") =>
               messagesRef' = turns[i].coreMessages
                                  \o AppendedFor(turns[i].steps, TRUE)]_vars

\* a completed turn of two steps has rebuilt the history: the submitted
\* message, the first step's assistant and tool messages, the second step's
\* assistant message
C28_Witness ==
    /\ \E i \in DOMAIN turns : turns[i].pc = "done"
    /\ Len(messagesRef) = 4
    /\ [k \in 1..4 |-> messagesRef[k].role] = <<"user", "assistant", "tool", "assistant">>
    /\ messagesRef[2].calls # <<>>
    /\ Len(messagesRef[3].results) = 2

\* C29: a turn whose cancellation has been requested writes nothing over
\* what reset or a newer turn has set: the step in which such a turn is
\* resumed (at a stream event, at the end of the stream or at the step
\* summary) leaves status, the model history, the approval queue and the
\* cancellation handle as they were.
C29_CancelledTurnWritesNothing ==
    [][\A i \in DOMAIN turns :
           (turns[i].aborted /\ turns'[i].pc # turns[i].pc) =>
               /\ status' = status
               /\ messagesRef' = messagesRef
               /\ pendingApprovals' = pendingApprovals
               /\ abortRef' = abortRef]_vars

\* C30: in every reachable state the cancellation handle is null exactly
\* when no turn that has not been cancelled is in flight, and otherwise it
\* is the handle of the one such turn.
C30_HandleTracksActiveTurn ==
    ActiveTurns = IF abortRef = 0 THEN {} ELSE {abortRef}

\* the loop of turn i handles a stream event: a text increment, a tool-call
\* announcement or a tool result
StreamEvent(i) ==
    \/ \E text \in TextDeltas : TextDelta(i, text)
    \/ \E choice \in Announceable : ToolCallPart(i, choice)
    \/ \E k \in DOMAIN turns[i].cur.toolCalls : ToolResultArrives(i, k)
    \/ FinishStep(i)

\* C31: once a turn's signal is aborted its loop handles no further stream
\* event, and the step in which the turn is resumed and leaves the loop
\* publishes nothing to the message list.
C31_NoEventAfterAbort ==
    [][\A i \in DOMAIN turns :
           turns[i].aborted =>
               /\ ~StreamEvent(i)
               /\ (turns'[i].pc # turns[i].pc) => messages' = messages]_vars

\* C31 witness: a turn that had published text was aborted, has observed
\* the abort and returned, and its text is still displayed
C31_Witness ==
    \E i \in DOMAIN turns :
        /\ turns[i].aborted
        /\ turns[i].pc = "done"
        /\ \E k \in DOMAIN messages :
               messages[k].role = "assistant" /\ messages[k].content = <<"x">>

\* the tool calls of a step as the message list shows them: pending, or
\* resolved with the output of the step's result for that call id
Shown(step) ==
    [k \in DOMAIN step.toolCalls |->
        LET toolCall == step.toolCalls[k]
            hits == {r \in DOMAIN step.toolResults :
                        step.toolResults[r].toolCallId = toolCall.toolCallId}
        IN  DisplayToolCall(toolCall.toolCallId, toolCall.toolName, toolCall.args,
                IF hits = {} THEN NoResult
                ELSE step.toolResults[CHOOSE r \in hits : TRUE].output,
                IF hits = {} THEN "pending" ELSE "result")]

\* the message list after turn i has published step as its open step: a new
\* assistant message with an unused id when the step has just begun, else
\* the step's message replaced (appended again when the list was emptied in
\* between); every other message as it was
Publishes(i, step) ==
    IF turns[i].currentAssistantId = 0
       \/ \A k \in DOMAIN messages : messages[k].id # turns[i].currentAssistantId
    THEN /\ Len(messages') = Len(messages) + 1
         /\ SubSeq(messages', 1, Len(messages)) = messages
         /\ Last(messages').role = "assistant"
         /\ Last(messages').content = step.text
         /\ Last(messages').toolCalls = Shown(step)
         /\ IF turns[i].currentAssistantId = 0
            THEN \A k \in DOMAIN messages : messages[k].id # Last(messages').id
            ELSE Last(messages').id = turns[i].currentAssistantId
    ELSE \E k \in DOMAIN messages :
             /\ messages[k].id = turns[i].currentAssistantId
             /\ messages' = [messages EXCEPT
                                ![k] = [@ EXCEPT !.content = step.text,
                                                 !.toolCalls = Shown(step)]]

\* the stream accumulation for the events drawn from the set choices
Accumulates(choices) ==
    \A i \in DOMAIN turns :
        /\ \A text \in TextDeltas :
               TextDelta(i, text) =>
                   Publishes(i, [turns[i].cur EXCEPT !.text = @ \o text])
        /\ \A choice \in choices :
               ToolCallPart(i, choice) =>
                   Publishes(i, [turns[i].cur EXCEPT !.toolCalls =
                                    Append(@, Call(nextCallId, choice.name, choice.args))])
        /\ \A k \in DOMAIN turns[i].cur.toolCalls :
               ToolResultArrives(i, k) =>
                   /\ Len(turns'[i].cur.toolResults) = Len(turns[i].cur.toolResults) + 1
                   /\ Last(turns'[i].cur.toolResults).toolCallId
                          = turns[i].cur.toolCalls[k].toolCallId
                   /\ turns'[i].cur.toolCalls = turns[i].cur.toolCalls
                   /\ turns'[i].cur.text = turns[i].cur.text
                   /\ Publishes(i, turns'[i].cur)
        /\ FinishStep(i) =>
               /\ messages' = messages
               /\ turns'[i].currentAssistantId = 0

\* C32: every stream event of a turn publishes the open step's assistant
\* message with the text received since the last step boundary and the
\* calls announced since then, in order, each pending until its result
\* arrives; the first event after a boundary appends a message with a new
\* id; no other message is altered.
C32_StreamAccumulation == [][Accumulates(ToolCallChoices)]_vars

\* C33: with every await of a turn settled eventually, and the stream or
\* the step summary free to fail, streaming never lasts: every state with
\* status streaming is followed by one with status idle, awaiting_approval
\* or error.
C33_EveryTurnEnds ==
    (status = "streaming") ~> (status \in {"idle", "awaiting_approval", "error"})

\* the call ids of the tool-result entries of a history
ResultIdsOf(history) ==
    UNION {{history[k].results[r].toolCallId : r \in DOMAIN history[k].results} :
              k \in DOMAIN history}

\* every tool call an assistant message of the history carries has a
\* tool-result entry with its call id
NoDanglingCalls(history) ==
    \A k \in DOMAIN history : \A c \in DOMAIN history[k].calls :
        history[k].calls[c].toolCallId \in ResultIdsOf(history)

\* C34: the history submitted for every turn, whether started by send,
\* approve or reject, holds a tool result for each tool call it carries.
C34_NoDanglingCalls ==
    \A i \in DOMAIN turns : NoDanglingCalls(turns[i].coreMessages)

\* the calls of the final step of a summary that have no result in it
UnresolvedOfFinal(steps) ==
    IF steps = <<>> THEN {}
    ELSE {k \in DOMAIN steps[Len(steps)].toolCalls :
             \A r \in DOMAIN steps[Len(steps)].toolResults :
                 steps[Len(steps)].toolResults[r].toolCallId
                     # steps[Len(steps)].toolCalls[k].toolCallId}

\* for a summary with at most one unresolved call in its final step the two
\* variants compute the same pending call
SamePendingCall ==
    \A i \in DOMAIN turns :
        (turns[i].pc = "steps" /\ Cardinality(UnresolvedOfFinal(turns[i].steps)) <= 1)
            => pendingApproval(getPendingToolCalls(turns[i].steps))
                   = getPendingToolCall(turns[i].steps)

\* the end of such a turn sets the status the single-call variant sets
SameEndOfTurn ==
    \A i \in DOMAIN turns :
        (/\ StepsResolve(i)
         /\ turns'[i].pc = "done"
         /\ Cardinality(UnresolvedOfFinal(turns[i].steps)) <= 1)
            => /\ pendingApproval(pendingApprovals') = getPendingToolCall(turns[i].steps)
               /\ status' = IF getPendingToolCall(turns[i].steps) = Null
                            THEN "idle" ELSE "awaiting_approval"

\* approving the only queued call, its arguments valid, gives the history
\* and the status of the single-call variant
SameApprove ==
    (ApproveActs /\ Len(rPending) = 1 /\ ~InvalidHead)
        => /\ messagesRef' = approveSingle(messagesRef, rPending[1], fileTree)
           /\ status' = "streaming"

\* rejecting the only queued call gives the history and the status of the
\* single-call variant
SameReject ==
    (RejectActs /\ Len(rPending) = 1)
        => /\ messagesRef' = rejectSingle(messagesRef, rPending[1])
           /\ status' = "streaming"

\* C35: for every step summary whose final step has at most one unresolved
\* call, the head of the queue of getPendingToolCalls is the result of
\* getPendingToolCall (both absent, or the same id, name and arguments), and
\* the end of the turn, the approval and the rejection of that call give the
\* statuses and histories of the single-call variant.
C35_VariantsAgree ==
    /\ []SamePendingCall
    /\ [][SameEndOfTurn]_vars
    /\ [][SameApprove]_vars
    /\ [][SameReject]_vars

\* the text is empty or white space only
Blank(text) == \A k \in DOMAIN text : text[k] = " "

\* the text from its first to its last character that is not white space
Stripped(text) ==
    LET inked == {k \in DOMAIN text : text[k] # " "}
    IN  SubSeq(text, CHOOSE k \in inked : \A h \in inked : k <= h,
                     CHOOSE k \in inked : \A h \in inked : h <= k)

\* C36: send with an empty or white-space text changes nothing and starts
\* no stream; a send that passes its guards appends one user message with
\* the trimmed text to the model history and to the message list, and the
\* turn it starts is handed that history.
C36_SendFrame ==
    [][\A text \in SendTexts :
           send(text) =>
               IF Blank(text)
               THEN /\ status' = status
                    /\ messagesRef' = messagesRef
                    /\ messages' = messages
                    /\ pendingApprovals' = pendingApprovals
                    /\ turns' = turns
               ELSE sendAccepts(text) =>
                    /\ messagesRef' = Append(messagesRef, UserMessage(Stripped(text)))
                    /\ Len(messages') = Len(messages) + 1
                    /\ SubSeq(messages', 1, Len(messages)) = messages
                    /\ Last(messages').role = "user"
                    /\ Last(messages').content = Stripped(text)
                    /\ Last(messages').toolCalls = <<>>
                    /\ Len(turns') = Len(turns) + 1
                    /\ Last(turns').coreMessages = messagesRef'
                    /\ Last(turns').pc = "open"]_vars

\* C36 witness: a send was accepted; the user message with the trimmed text
\* ends the history and the message list and the turn has not yet opened
C36_Witness ==
    /\ turns # <<>>
    /\ Last(turns).pc = "open"
    /\ messagesRef # <<>>
    /\ Last(messagesRef) = UserMessage(<<"h">>)
    /\ Last(turns).coreMessages = messagesRef
    /\ messages # <<>>
    /\ Last(messages).role = "user"
    /\ Last(messages).content = <<"h">>

\* no two messages of the published list carry the same id
DistinctIds ==
    \A a, b \in DOMAIN messages : a # b => messages[a].id # messages[b].id

\* the id a turn holds for its open step is held by no other turn and names
\* no user message
OwnIds ==
    \A i \in DOMAIN turns :
        turns[i].currentAssistantId # 0 =>
            /\ \A j \in DOMAIN turns :
                   j # i => turns[j].currentAssistantId # turns[i].currentAssistantId
            /\ \A k \in DOMAIN messages :
                   messages[k].id = turns[i].currentAssistantId =>
                       messages[k].role = "assistant"

\* a stream event of turn i leaves alone every message but the one of
\* turn i's open step
OwnStepOnly ==
    \A i \in DOMAIN turns :
        StreamEvent(i) =>
            /\ Len(messages') >= Len(messages)
            /\ \A k \in DOMAIN messages :
                   messages'[k] # messages[k] =>
                       /\ turns[i].currentAssistantId # 0
                       /\ messages[k].id = turns[i].currentAssistantId
                       /\ messages'[k].id = messages[k].id
                       /\ messages[k].role = "assistant"

\* C37: the ids of the published messages are pairwise distinct in every
\* reachable state, the id of a turn's open step belongs to that turn alone,
\* and a stream event changes no message but the one of its own step.
C37_DistinctMessageIds ==
    /\ [](DistinctIds /\ OwnIds)
    /\ [][OwnStepOnly]_vars

\* C37 witness: after a reset, with the counter beyond the messages shown, a
\* turn that was started before the reset and one started after it each hold
\* an assistant id, and user and assistant messages are on display
C37_Witness ==
    /\ messageCounter > Len(messages)
    /\ \E k \in DOMAIN messages : messages[k].role = "user"
    /\ \E k \in DOMAIN messages : messages[k].role = "assistant"
    /\ \E i, j \in DOMAIN turns :
           /\ i # j
           /\ turns[i].discarded
           /\ ~turns[j].discarded
           /\ turns[i].currentAssistantId # 0
           /\ turns[j].currentAssistantId # 0

====
